---- MODULE Spec2Model ----
(***************************************************************************)
(* Model of the OnlineJudger execution engine.                             *)
(*                                                                         *)
(* Two deployments are modelled, as in the repository:                     *)
(*   "serverless": codejudge-serverless/worker/lambda_function.py, a queue *)
(*                 triggered handler that judges a batch of records;       *)
(*   "ecs":        dispatcher-lambda starts one judge-task container per   *)
(*                 record, judge-task/judge.py judges it and publishes the *)
(*                 result, callback-lambda records the result.             *)
(* Text is modelled as a sequence of one-character strings; captured       *)
(* process output is a sequence of bytes, written with the same characters *)
(* plus BadByte, a byte that is not valid UTF-8.                           *)
(***************************************************************************)
EXTENDS Integers, Sequences, FiniteSets, TLC

\* ------------------------------------------------------------------ bounds
MaxSubs == 1          \* submission ids that are ever created
MaxBatch == 2         \* records in one handler invocation
MaxJudgeOps == 2      \* records the worker is handed in one behaviour
MaxTasks == 1         \* judge containers started in one behaviour

\* --------------------------------------------------------- fixed texts
None == "None"

BadByte == "0xFF"
Whitespace == {" ", "\n"}

Cpp == <<"c", "p", "p">>
Python == <<"p", "y", "t", "h", "o", "n">>
Java == <<"j", "a", "v", "a">>
Javascript == <<"j", "a", "v", "a", "s", "c", "r", "i", "p", "t">>
Go == <<"g", "o">>
Py == <<"p", "y">>
Rb == <<"r", "b">>

UnsupportedPrefix == <<"U", "n", "s", "u", "p", "p", "o", "r", "t", "e", "d", " ", "l", "a", "n", "g", "u", "a", "g", "e", ":", " ">>
MemoryLimitExceeded == <<"M", "e", "m", "o", "r", "y", " ", "L", "i", "m", "i", "t", " ", "E", "x", "c", "e", "e", "d", "e", "d">>
TimeLimitExceeded == <<"T", "i", "m", "e", " ", "L", "i", "m", "i", "t", " ", "E", "x", "c", "e", "e", "d", "e", "d">>
JudgeTimeLimitExceeded == <<"T", "i", "m", "e", " ", "l", "i", "m", "i", "t", " ", "e", "x", "c", "e", "e", "d", "e", "d">>
CompilationTimeout == <<"C", "o", "m", "p", "i", "l", "a", "t", "i", "o", "n", " ", "t", "i", "m", "e", "o", "u", "t", " ", "(", "1", "0", "s", " ", "e", "x", "c", "e", "e", "d", "e", "d", ")">>
NoErrorMessage == <<"R", "u", "n", "t", "i", "m", "e", " ", "e", "r", "r", "o", "r", " ", "(", "n", "o", " ", "e", "r", "r", "o", "r", " ", "m", "e", "s", "s", "a", "g", "e", ")">>
SetupErrorPrefix == <<"E", "r", "r", "o", "r", " ", "s", "e", "t", "t", "i", "n", "g", " ", "u", "p", " ", "e", "x", "e", "c", "u", "t", "i", "o", "n", ":", " ">>
ExecutionErrorPrefix == <<"E", "x", "e", "c", "u", "t", "i", "o", "n", " ", "e", "r", "r", "o", "r", ":", " ">>
SourceErrorPrefix == <<"F", "a", "i", "l", "e", "d", " ", "t", "o", " ", "c", "r", "e", "a", "t", "e", " ", "s", "o", "u", "r", "c", "e", " ", "f", "i", "l", "e", ":", " ">>

\* str(e) of the exceptions the engine can meet
TimeoutExpiredText == <<"C", "o", "m", "m", "a", "n", "d", " ", "t", "i", "m", "e", "d", " ", "o", "u", "t">>
UnicodeDecodeErrorText == <<"'", "u", "t", "f", "-", "8", "'", " ", "c", "o", "d", "e", "c", " ", "c", "a", "n", "'", "t", " ", "d", "e", "c", "o", "d", "e">>
OSErrorText == <<"[", "E", "r", "r", "n", "o", " ", "2", "8", "]">>

\* ------------------------------------------------------- text operations
\* bytes.decode('utf-8'): the text of the bytes, or UnicodeDecodeError
Decodable(bytes) == \A i \in 1..Len(bytes) : bytes[i] # BadByte
Decode(bytes) == bytes

RECURSIVE LStrip(_)
LStrip(s) == IF s # <<>> /\ Head(s) \in Whitespace THEN LStrip(Tail(s)) ELSE s

RECURSIVE RStrip(_)
RStrip(s) ==
    IF s # <<>> /\ s[Len(s)] \in Whitespace THEN RStrip(SubSeq(s, 1, Len(s) - 1)) ELSE s

\* str.strip()
Strip(s) == RStrip(LStrip(s))

\* s[:n]
Prefix(s, n) == SubSeq(s, 1, IF Len(s) < n THEN Len(s) ELSE n)

TruncateLen == 1000
Truncate(s) == Prefix(s, TruncateLen)

compare_output_untrimmed(actual, expected) == actual = expected

\* actual.strip() == expected.strip()
compare_output(actual, expected) == Strip(actual) = Strip(expected)

Max(a, b) == IF a > b THEN a ELSE b

\* ------------------------------------------------------ child processes
\* What one spawned child does: fault is an exception subprocess.run raises
\* in the judging process itself, dur the seconds the child needs, rc its
\* return code (negative: killed by that signal), out/err its captured
\* bytes, oom whether it breached its memory limit.
Outcome(f, d, r, o, e, m) ==
    [fault |-> f, dur |-> d, rc |-> r, out |-> o, err |-> e, oom |-> m]

LongOut == [i \in 1..(TruncateLen + 1) |-> "a"]

CompileOutcomes ==
    { Outcome("OSError", 0, 0, <<>>, <<>>, FALSE),
      Outcome("none", 11, -9, <<>>, <<>>, FALSE),
      Outcome("none", 1, 1, <<>>, <<"e", "\n">>, FALSE),
      Outcome("none", 1, 0, <<>>, <<>>, FALSE) }

RunOutcomes ==
    { Outcome("MemoryError", 0, 0, <<>>, <<>>, TRUE),
      Outcome("OSError", 0, 0, <<>>, <<>>, FALSE),
      Outcome("none", 3, -9, <<"a", "\n">>, <<>>, FALSE) }
    \cup { Outcome("none", 1, 0, o, <<>>, FALSE) :
             o \in {<<"a", "\n">>, <<"b">>, <<BadByte>>, LongOut} }
    \cup { Outcome("none", 1, 1, <<>>, <<>>, FALSE),
           Outcome("none", 1, 1, <<>>, <<"e", "\n">>, FALSE),
           Outcome("none", 1, 1, <<>>, <<"e", "\n">>, TRUE),
           Outcome("none", 1, -9, <<>>, <<>>, TRUE),
           Outcome("none", 1, -11, <<>>, <<>>, TRUE) }

\* stands for the outcome of a process that is never started
NoOutcome == Outcome("none", 0, 0, <<>>, <<>>, FALSE)

\* One subprocess.run call: what was started, how, and what the child did.
\* env is "inherit" when no env argument is passed, rlimit the address-space
\* ceiling in MB (0: no preexec_fn), heap the runtime heap flag in MB (0: no
\* flag), piped whether an input argument is passed and stdin its text.
Spawn(phase, prog, env, timeout, rlimit, heap, piped, stdin, o) ==
    [phase |-> phase, prog |-> prog, env |-> env, timeout |-> timeout,
     rlimit |-> rlimit, heap |-> heap, piped |-> piped, stdin |-> stdin,
     outcome |-> o]

\* a returned (verdict, output) pair, or a raised exception with its str()
Ret(v, o) == [raised |-> FALSE, verdict |-> v, output |-> o]
Exc(text) == [raised |-> TRUE, verdict |-> None, output |-> text]

FaultText(f) == IF f = "OSError" THEN OSErrorText ELSE <<>>

\* --------------------------------------- worker/lambda_function.py
get_safe_env == "allowlist"

run_untrusted_code(o, timeout) ==
    IF o.fault = "MemoryError" THEN Ret("MLE", MemoryLimitExceeded)
    ELSE IF o.fault # "none" THEN Exc(FaultText(o.fault))
    ELSE IF o.dur > timeout THEN Ret("TLE", TimeLimitExceeded)
    ELSE IF o.rc = 0
    THEN IF Decodable(o.out) THEN Ret("AC", Decode(o.out))
         ELSE Exc(UnicodeDecodeErrorText)
    ELSE IF o.rc \in {-9, -11} THEN Ret("MLE", MemoryLimitExceeded)
    ELSE IF Decodable(o.err) THEN Ret("RE", Decode(o.err))
    ELSE Exc(UnicodeDecodeErrorText)

RunSpawn(prog, timeout, mem, heap, o) ==
    Spawn("run", prog, get_safe_env, timeout, mem, heap, FALSE, <<>>, o)

CompileTimeout == 10

CompileStepStdout(co) ==
    IF co.fault # "none" THEN Exc(FaultText(co.fault))
    ELSE IF co.dur > CompileTimeout THEN Exc(TimeoutExpiredText)
    ELSE IF co.rc # 0 THEN Ret("CE", Decode(co.out))
    ELSE Ret("OK", <<>>)

\* try: subprocess.run(compile command, check=True, capture_output=True,
\*                     timeout=10)
\* except subprocess.CalledProcessError as e: return "CE", e.stderr.decode()
CompileStep(co) ==
    IF co.fault # "none" THEN Exc(FaultText(co.fault))
    ELSE IF co.dur > CompileTimeout THEN Exc(TimeoutExpiredText)
    ELSE IF co.rc # 0
    THEN IF Decodable(co.err) THEN Ret("CE", Decode(co.err))
         ELSE Exc(UnicodeDecodeErrorText)
    ELSE Ret("OK", <<>>)

\* the shape shared by execute_cpp, execute_java and execute_go
CompileAndRun(writeOk, cspawn, rspawn, timeout) ==
    IF ~writeOk THEN [res |-> Exc(OSErrorText), spawns |-> <<>>]
    ELSE LET c == CompileStep(cspawn.outcome) IN
         IF c.raised \/ c.verdict = "CE"
         THEN [res |-> c, spawns |-> <<cspawn>>]
         ELSE [res |-> run_untrusted_code(rspawn.outcome, timeout),
               spawns |-> <<cspawn, rspawn>>]

\* the shape shared by execute_python and execute_javascript
WriteAndRun(writeOk, rspawn, timeout) ==
    IF ~writeOk THEN [res |-> Exc(OSErrorText), spawns |-> <<>>]
    ELSE [res |-> run_untrusted_code(rspawn.outcome, timeout),
          spawns |-> <<rspawn>>]

execute_cpp(writeOk, co, ro, timeout, mem) ==
    CompileAndRun(writeOk,
                  Spawn("compile", "g++", "inherit", CompileTimeout, 0, 0, FALSE, <<>>, co),
                  RunSpawn("a.out", timeout, mem, 0, ro), timeout)

execute_python(writeOk, ro, timeout, mem) ==
    WriteAndRun(writeOk, RunSpawn("python3", timeout, mem, 0, ro), timeout)

HeapReserve == 64
MinHeap == 64
\* max(64, memory_limit_mb - 64)
HeapBudgetAboveLimit(mem) == Max(MinHeap, mem + HeapReserve)

HeapBudget(mem) == Max(MinHeap, mem - HeapReserve)

execute_java(writeOk, co, ro, timeout, mem) ==
    CompileAndRun(writeOk,
                  Spawn("compile", "javac", "inherit", CompileTimeout, 0, 0, FALSE, <<>>, co),
                  RunSpawn("java", timeout, mem, HeapBudget(mem), ro), timeout)

execute_javascript(writeOk, ro, timeout, mem) ==
    WriteAndRun(writeOk, RunSpawn("node", timeout, mem, HeapBudget(mem), ro), timeout)

execute_go(writeOk, co, ro, timeout, mem) ==
    CompileAndRun(writeOk,
                  Spawn("compile", "go", "allowlist+gocache", CompileTimeout, 0, 0, FALSE, <<>>, co),
                  RunSpawn("main", timeout, mem, 0, ro), timeout)

UnsupportedLanguageAnon(lang) == UnsupportedPrefix

\* f"Unsupported language: {lang}"
UnsupportedLanguage(lang) == UnsupportedPrefix \o lang

\* lines 154-159 of handler: the language dispatch
Dispatch(lang, writeOk, co, ro, timeout, mem) ==
    IF lang = Cpp THEN execute_cpp(writeOk, co, ro, timeout, mem)
    ELSE IF lang = Python THEN execute_python(writeOk, ro, timeout, mem)
    ELSE IF lang = Java THEN execute_java(writeOk, co, ro, timeout, mem)
    ELSE IF lang = Javascript THEN execute_javascript(writeOk, ro, timeout, mem)
    ELSE IF lang = Go THEN execute_go(writeOk, co, ro, timeout, mem)
    ELSE [res |-> Ret("RE", UnsupportedLanguage(lang)), spawns |-> <<>>]

\* if verdict == "AC": verdict = "AC" if compare_output(...) else "WA"
Resolve(verdict, output, expected) ==
    IF verdict = "AC"
    THEN IF compare_output(output, expected) THEN "AC" ELSE "WA"
    ELSE verdict

HandlerTryWithoutMessage(lang, expected, writeOk, co, ro, timeout, mem) ==
    LET e == Dispatch(lang, writeOk, co, ro, timeout, mem) IN
    IF e.res.raised
    THEN [verdict |-> "RE", output |-> <<>>,
          provisional |-> "raised", spawns |-> e.spawns]
    ELSE [verdict |-> Resolve(e.res.verdict, e.res.output, expected),
          output |-> e.res.output,
          provisional |-> e.res.verdict, spawns |-> e.spawns]

\* the try / except Exception block of handler (lines 153-164); provisional
\* is the verdict the execute step returned, "raised" when it raised
HandlerTry(lang, expected, writeOk, co, ro, timeout, mem) ==
    LET e == Dispatch(lang, writeOk, co, ro, timeout, mem) IN
    IF e.res.raised
    THEN [verdict |-> "RE", output |-> e.res.output,
          provisional |-> "raised", spawns |-> e.spawns]
    ELSE [verdict |-> Resolve(e.res.verdict, e.res.output, expected),
          output |-> e.res.output,
          provisional |-> e.res.verdict, spawns |-> e.spawns]

\* ------------------------------------------------------------ submissions
SubIds == 1..MaxSubs

Url == <<"u">>

Languages == {Cpp, Python, Java, Javascript, Go, Py, Rb}

\* message bodies that are submitted, one per behaviour: every language with
\* expected output "a",
\* and for python also an empty expected output and one with surrounding
\* whitespace; one body without callback target
Body(lang, expected, cb) ==
    [language |-> lang, input |-> <<"i">>, expected_output |-> expected,
     timeout |-> 2, memoryLimit |-> 256, callback_url |-> cb]

Bodies ==
    { Body(l, <<"a">>, Url) : l \in Languages }
    \cup { Body(Python, e, Url) : e \in {<<>>, <<" ", "a", "\n">>} }
    \cup { Body(Rb, <<"a">>, <<>>) }

\* the bodies tried on judge containers: its two languages, and languages it
\* does not know
EcsBodies == {b \in Bodies : b.language \in {Py, Cpp, Java, Rb}}

NoBody == Body(<<>>, <<>>, <<>>)

Terminal == {"AC", "WA", "RE", "CE", "TLE", "MLE"}

\* ------------------------------------------------------------------ state
VARIABLES
    deployment,   \* "serverless" or "ecs"
    message,      \* the body of the submission messages of this behaviour
    program,      \* what the submitted program does when compiled and run,
                  \* and whether it leaves files behind that cannot be removed
    store,        \* Status Store: id -> [status, result]
    queued,       \* submission queue: id -> whether its message was sent
    pc,           \* worker: position of the handler in the current record
    records,      \* worker: ids of the records the loop has yet to finish
    payload,      \* the body of the record (ecs: the task) being judged
    workDir,      \* worker: run_id of the current workspace (0: none)
    verdict,      \* worker: local verdict
    output,       \* worker: local output
    obs,          \* current judge operation: provisional verdict and spawns
    trace,        \* current judge operation: its effects, in order
    workspaces,   \* workspace directories that exist
    opCount,      \* records handed to the engine so far
    runIds,       \* workspace identifiers generated so far, in order
    published,    \* Result Sink: the messages of the latest judge operation
    tasks,        \* ecs: id -> judge tasks started for it and not yet run
    delivered,    \* ecs: callback posts of the callback invocation just made
    callback,     \* the callback invocation just made: the size of its batch,
                  \* the records it handled and why it raised ("none": it
                  \* returned)
    other         \* a second worker instance: its position, the id of its
                  \* record, its locals and the messages it has published

vars == <<deployment, message, program, store, queued, pc, records, payload, workDir,
          verdict, output, obs, trace, workspaces, opCount, runIds, published,
          tasks, delivered, callback, other>>

workerVars == <<pc, records, workDir, workspaces, runIds>>
ecsVars == <<tasks, delivered, callback>>

NoCallback == [size |-> 0, handled |-> 0, cause |-> "none"]

NoObs == [provisional |-> None, spawns |-> <<>>]

\* ------------------------------------------------- submit-lambda/app.py
\* put_item(status PENDING) then send_message; sendOk = FALSE: send_message
\* raises and the handler answers 500
Submit(id, sendOk) ==
    /\ store[id].status = "NONE"
    /\ \A j \in SubIds : j < id => store[j].status # "NONE"
    /\ store' = [store EXCEPT ![id] = [status |-> "PENDING", result |-> <<>>]]
    /\ queued' = [queued EXCEPT ![id] = sendOk]
    /\ UNCHANGED ecsVars
    /\ UNCHANGED <<other, deployment, message, program, pc, records, payload, workDir, verdict, output,
                   obs, trace, workspaces, opCount, runIds, published>>

\* ----------------------------------- worker/lambda_function.py: handler
HandlerStepsMkdirFirst ==
    <<"parse", "mkdir", "processing", "execute", "publish", "final">>

\* the statements of the loop body, in program order
HandlerSteps == <<"parse", "processing", "mkdir", "execute", "publish", "final">>

StepAfter(step) ==
    LET i == CHOOSE k \in 1..Len(HandlerSteps) : HandlerSteps[k] = step IN
    IF i < Len(HandlerSteps) THEN HandlerSteps[i + 1] ELSE "next"

\* for record in event['Records']: the record the loop is at
cur == Head(records)

Batches ==
    UNION { [1..n -> {i \in SubIds : queued[i]}] : n \in 1..MaxBatch }

\* the handler is invoked with a batch of records
Receive(batch) ==
    /\ deployment = "serverless"
    /\ pc = "idle"
    /\ opCount + Len(batch) <= MaxJudgeOps
    /\ records' = batch
    /\ pc' = HandlerSteps[1]
    /\ opCount' = opCount + Len(batch)
    /\ UNCHANGED ecsVars
    /\ UNCHANGED <<other, deployment, message, program, store, queued, payload, workDir, verdict,
                   output, obs, trace, workspaces, runIds, published>>

\* the handler is left, by its return or by an exception: its locals are gone
Leave ==
    /\ pc' = "idle"
    /\ records' = <<>>
    /\ payload' = NoBody
    /\ workDir' = 0
    /\ verdict' = None
    /\ output' = <<>>
    /\ obs' = NoObs

\* control moves to the statement after step, with the locals as given: the
\* next statement of the loop body, the first statement for the next record,
\* or the return
Advance(step, p, w, v, o, ob) ==
    IF StepAfter(step) = "next" /\ Len(records) = 1
    THEN Leave
    ELSE /\ pc' = IF StepAfter(step) = "next" THEN HandlerSteps[1]
                  ELSE StepAfter(step)
         /\ records' = IF StepAfter(step) = "next" THEN Tail(records)
                       ELSE records
         /\ payload' = p
         /\ workDir' = w
         /\ verdict' = v
         /\ output' = o
         /\ obs' = ob

SpawnEvents(spawns) == [i \in 1..Len(spawns) |-> spawns[i].phase]

HasPhase(spawns, phase) == \E i \in 1..Len(spawns) : spawns[i].phase = phase

\* whether the code starts a compile process for the body, and a run process
\* after compile outcome co
CompileTried(body, writeOk) ==
    HasPhase(Dispatch(body.language, writeOk, NoOutcome, NoOutcome,
                      body.timeout, body.memoryLimit).spawns, "compile")

RunTried(body, writeOk, co) ==
    HasPhase(Dispatch(body.language, writeOk, co, NoOutcome,
                      body.timeout, body.memoryLimit).spawns, "run")

\* the outcomes in which subprocess.run itself raises: they come from the
\* machine, not from the program
Faults(outcomes) == {o \in outcomes : o.fault # "none"}

\* the outcomes to try for the compile and the run process of a record: what
\* the submitted program does, or a fault of the machine; NoOutcome for a
\* process the code does not start
CompileChoices(body, writeOk) ==
    IF CompileTried(body, writeOk)
    THEN Faults(CompileOutcomes) \cup {program.co} ELSE {NoOutcome}

RunChoices(body, writeOk, co) ==
    IF RunTried(body, writeOk, co)
    THEN Faults(RunOutcomes) \cup {program.ro} ELSE {NoOutcome}

\* payload = json.loads(record['body']) and the payload.get calls, lines
\* 131-138; the body of a message is read here.  A judge operation starts:
\* obs, trace and published start afresh.
Parse(body) ==
    /\ pc = "parse"
    /\ Advance("parse", body, workDir, verdict, output, NoObs)
    /\ trace' = <<>>
    /\ published' = <<>>
    /\ UNCHANGED ecsVars
    /\ UNCHANGED <<other, deployment, message, program, store, queued, workspaces, opCount, runIds>>

\* table.update_item(SET status = PROCESSING), lines 141-146
WriteProcessing(ok) ==
    /\ pc = "processing"
    /\ IF ok
       THEN /\ store' = [store EXCEPT ![cur].status = "PROCESSING"]
            /\ trace' = Append(trace, "setStatus")
            /\ Advance("processing", payload, workDir, verdict, output, obs)
       ELSE /\ Leave
            /\ UNCHANGED <<store, trace>>
    /\ UNCHANGED ecsVars
    /\ UNCHANGED <<other, deployment, message, program, queued, workspaces, opCount, runIds, published>>

RunIdBySubmission(used, id) == id

\* str(uuid.uuid4()), line 149: an identifier that differs from all those
\* generated before; the submission id plays no part in it
RunId(used, id) == Len(used) + 1

\* run_id = str(uuid.uuid4()); os.makedirs(work_dir, exist_ok=True), lines
\* 148-151: a directory that exists already is taken as it is
MakeWorkspace ==
    /\ pc = "mkdir"
    /\ runIds' = Append(runIds, RunId(runIds, cur))
    /\ workspaces' = workspaces \cup {RunId(runIds, cur)}
    /\ trace' = Append(trace, "mkdir")
    /\ Advance("mkdir", payload, RunId(runIds, cur), verdict, output, obs)
    /\ UNCHANGED ecsVars
    /\ UNCHANGED <<other, deployment, message, program, store, queued, opCount, published>>

\* whether the tree of the workspace can be removed after these spawns: not
\* when the program ran and left files behind that cannot be removed
Removable(spawns, ro) ==
    ~(program.litter /\ ro = program.ro /\ HasPhase(spawns, "run"))

\* try / except / finally, lines 153-167: build, run and compare, then
\* shutil.rmtree(work_dir, ignore_errors=True): a failed removal is ignored
\* and the directory stays
Execute(writeOk, co, ro) ==
    /\ pc = "execute"
    /\ LET r == HandlerTry(payload.language, payload.expected_output, writeOk,
                           co, ro, payload.timeout, payload.memoryLimit) IN
       /\ trace' = trace \o SpawnEvents(r.spawns) \o
                      <<IF Removable(r.spawns, ro) THEN "rmtree"
                        ELSE "rmtreeFailed">>
       /\ Advance("execute", payload, workDir, r.verdict, r.output,
                  [provisional |-> r.provisional, spawns |-> r.spawns])
       /\ workspaces' = IF Removable(r.spawns, ro) THEN workspaces \ {workDir}
                        ELSE workspaces
    /\ UNCHANGED ecsVars
    /\ UNCHANGED <<other, deployment, message, program, store, queued, opCount, runIds, published>>

\* result_payload, lines 169-174
ResultPayload(id, v, out, cb) ==
    [submissionId |-> id, verdict |-> v, output |-> Truncate(out),
     callback_url |-> cb]

\* sqs.send_message(result_payload), line 176
Publish(ok) ==
    /\ pc = "publish"
    /\ IF ok
       THEN /\ published' = Append(published,
                   ResultPayload(cur, verdict, output, payload.callback_url))
            /\ trace' = Append(trace, "publish")
            /\ Advance("publish", payload, workDir, verdict, output, obs)
       ELSE /\ Leave
            /\ UNCHANGED <<published, trace>>
    /\ UNCHANGED ecsVars
    /\ UNCHANGED <<other, deployment, message, program, store, queued, workspaces, opCount, runIds>>

\* table.update_item(SET status = verdict, result = output), lines 178-183
WriteFinal(ok) ==
    /\ pc = "final"
    /\ IF ok
       THEN /\ store' = [store EXCEPT ![cur] =
                   [status |-> verdict, result |-> Truncate(output)]]
            /\ trace' = Append(trace, "setFinal")
            /\ Advance("final", payload, workDir, verdict, output, obs)
       ELSE /\ Leave
            /\ UNCHANGED <<store, trace>>
    /\ UNCHANGED ecsVars
    /\ UNCHANGED <<other, deployment, message, program, queued, workspaces, opCount, runIds, published>>

\* ------------------------- worker/lambda_function.py: a second instance
\* A second instance of the worker, invoked with one record while the first
\* may be anywhere in its handler.  It has its own /tmp; the Status Store,
\* the queue and the generator of identifiers are the ones of the first.
OtherIdle ==
    [pc |-> "idle", id |-> 0, workDir |-> 0, verdict |-> None, output |-> <<>>,
     published |-> <<>>]

\* the second instance is left by an exception: its locals are gone
OtherFailed == [OtherIdle EXCEPT !.pc = "failed"]

\* the handler is invoked with a batch of the one record id; lines 131-138
OtherReceive(id) ==
    /\ deployment = "serverless"
    /\ other.pc \in {"idle", "failed", "done"}
    /\ queued[id]
    /\ opCount + 1 <= MaxJudgeOps
    /\ opCount' = opCount + 1
    /\ other' = [OtherIdle EXCEPT !.pc = "processing", !.id = id]
    /\ UNCHANGED <<deployment, message, program, store, queued, payload, verdict,
                   output, obs, trace, published>>
    /\ UNCHANGED workerVars
    /\ UNCHANGED ecsVars

\* table.update_item(SET status = PROCESSING), lines 141-146
OtherWriteProcessing(ok) ==
    /\ other.pc = "processing"
    /\ IF ok
       THEN /\ store' = [store EXCEPT ![other.id].status = "PROCESSING"]
            /\ other' = [other EXCEPT !.pc = "judge"]
       ELSE /\ other' = OtherFailed
            /\ UNCHANGED store
    /\ UNCHANGED <<deployment, message, program, queued, payload, verdict, output,
                   obs, trace, opCount, published>>
    /\ UNCHANGED workerVars
    /\ UNCHANGED ecsVars

\* lines 148-176: the workspace is made under a new run_id in the /tmp of this
\* instance, the submission is built, run and compared, the workspace is
\* removed and the result is published; a failed send_message raises
OtherJudge(writeOk, co, ro, pubOk) ==
    /\ other.pc = "judge"
    /\ runIds' = Append(runIds, RunId(runIds, other.id))
    /\ LET r == HandlerTry(message.language, message.expected_output, writeOk,
                           co, ro, message.timeout, message.memoryLimit) IN
       other' = IF pubOk
                THEN [other EXCEPT
                        !.pc = "final",
                        !.workDir = RunId(runIds, other.id),
                        !.verdict = r.verdict,
                        !.output = r.output,
                        !.published = <<ResultPayload(other.id, r.verdict,
                                           r.output, message.callback_url)>>]
                ELSE OtherFailed
    /\ UNCHANGED <<deployment, message, program, store, queued, pc, records,
                   payload, workDir, verdict, output, obs, trace, workspaces,
                   opCount, published>>
    /\ UNCHANGED ecsVars

OtherWriteFinalIfProcessing(ok) ==
    /\ other.pc = "final"
    /\ IF ok
       THEN /\ store' = IF store[other.id].status = "PROCESSING"
                        THEN [store EXCEPT ![other.id] =
                                [status |-> other.verdict,
                                 result |-> Truncate(other.output)]]
                        ELSE store
            /\ other' = [other EXCEPT !.pc = "done"]
       ELSE /\ other' = OtherFailed
            /\ UNCHANGED store
    /\ UNCHANGED <<deployment, message, program, queued, payload, verdict, output,
                   obs, trace, opCount, published>>
    /\ UNCHANGED workerVars
    /\ UNCHANGED ecsVars

\* table.update_item(SET status = verdict, result = output), lines 178-183:
\* unconditional, whatever the item holds
OtherWriteFinal(ok) ==
    /\ other.pc = "final"
    /\ IF ok
       THEN /\ store' = [store EXCEPT ![other.id] =
                   [status |-> other.verdict, result |-> Truncate(other.output)]]
            /\ other' = [other EXCEPT !.pc = "done"]
       ELSE /\ other' = OtherFailed
            /\ UNCHANGED store
    /\ UNCHANGED <<deployment, message, program, queued, payload, verdict, output,
                   obs, trace, opCount, published>>
    /\ UNCHANGED workerVars
    /\ UNCHANGED ecsVars

\* ------------------------------------------------ dispatcher-lambda/app.py
\* for each record: ecs.run_task with the submission as the environment of
\* the judge container
DispatcherHandler(batch) ==
    /\ deployment = "ecs"
    /\ opCount + Len(batch) <= MaxTasks
    /\ opCount' = opCount + Len(batch)
    /\ tasks' = [i \in SubIds |->
                   tasks[i] + Cardinality({k \in 1..Len(batch) : batch[k] = i})]
    /\ delivered' = <<>>
    /\ callback' = NoCallback
    /\ UNCHANGED <<other, deployment, message, program, store, queued, payload, verdict, output, obs,
                   trace, published>>
    /\ UNCHANGED workerVars

\* ------------------------------------------------------ judge-task/judge.py
JudgeSupported == {Py, Cpp}
JudgeCompileTimeout == 10
JudgeRunTimeout == 2

\* subprocess.run(..., capture_output=True, text=True, timeout=t): raises the
\* fault or TimeoutExpired, or decodes both streams and returns
Captured(o, t) ==
    IF o.fault # "none" THEN [kind |-> "raise", text |-> FaultText(o.fault)]
    ELSE IF o.dur > t THEN [kind |-> "timeout"]
    ELSE IF ~Decodable(o.out) \/ ~Decodable(o.err)
    THEN [kind |-> "raise", text |-> UnicodeDecodeErrorText]
    ELSE [kind |-> "done", rc |-> o.rc, stdout |-> Decode(o.out),
          stderr |-> Decode(o.err)]

\* the result_payload a path of run_judge ends with; early: the path calls
\* send_result itself and returns; provisional: "AC" when the verdict logic
\* was reached
JudgeResult(status, out, early, provisional, spawns) ==
    [status |-> status, output |-> out, early |-> early,
     provisional |-> provisional, spawns |-> spawns]

\* Execution Step, lines 169-217
JudgeExecute(rspawn, expected, spawns) ==
    LET r == Captured(rspawn.outcome, JudgeRunTimeout) IN
    IF r.kind = "timeout"
    THEN JudgeResult("TLE", JudgeTimeLimitExceeded, FALSE, "TLE", spawns)
    ELSE IF r.kind = "raise"
    THEN JudgeResult("RE", ExecutionErrorPrefix \o r.text, FALSE, "raised", spawns)
    ELSE IF r.rc # 0
    THEN JudgeResult("RE",
                     IF Strip(r.stderr) # <<>> THEN Strip(r.stderr)
                     ELSE NoErrorMessage,
                     TRUE, "RE", spawns)
    ELSE JudgeResult(IF Strip(r.stdout) = Strip(expected) THEN "AC" ELSE "WA",
                     Strip(r.stdout), FALSE, "AC", spawns)

\* lines 75-217 of run_judge: from the language check to the verdict
JudgeCore(lang, expected, input, writeOk, co, ro) ==
    LET cspawn == Spawn("compile", "g++", "inherit", JudgeCompileTimeout, 0, 0,
                        FALSE, <<>>, co)
        rspawn == Spawn("run", IF lang = Py THEN "python3" ELSE "a.out",
                        "inherit", JudgeRunTimeout, 0, 0, TRUE, input, ro)
        c == Captured(co, JudgeCompileTimeout)
    IN
    IF lang \notin JudgeSupported
    THEN JudgeResult("RE", UnsupportedPrefix \o lang, TRUE, "RE", <<>>)
    ELSE IF ~writeOk
    THEN JudgeResult("RE", SourceErrorPrefix \o OSErrorText, TRUE, "raised", <<>>)
    ELSE IF lang = Py
    THEN JudgeExecute(rspawn, expected, <<rspawn>>)
    ELSE IF c.kind = "timeout"
    THEN JudgeResult("CE", CompilationTimeout, TRUE, "CE", <<cspawn>>)
    ELSE IF c.kind = "raise"
    THEN JudgeResult("RE", SetupErrorPrefix \o c.text, TRUE, "raised", <<cspawn>>)
    ELSE IF c.rc # 0
    THEN JudgeResult("CE", Strip(c.stderr), TRUE, "CE", <<cspawn>>)
    ELSE JudgeExecute(rspawn, expected, <<cspawn, rspawn>>)

JudgeMessage(id, cb, status, out) ==
    [submissionId |-> id, callbackUrl |-> cb, status |-> status, output |-> out]

\* send_result: one send_message call; on failure it logs and calls
\* sys.exit(1)
SendResult(ok, m) ==
    IF ok THEN [msgs |-> <<m>>, events |-> <<"publish">>]
    ELSE [msgs |-> <<>>, events |-> <<"publishFailed">>]

\* run_judge as a whole: the result and the calls of send_result it makes.  An
\* early path sends and returns inside the try block, and the finally block
\* (lines 229-237) then sends again; SystemExit raised by a failed send is not
\* an Exception, so it too reaches the finally block.  The language check
\* (lines 75-82) comes before the with block of the temporary directory
\* (line 86); every other early path sends inside that block, before the
\* directory is cleaned up on leaving it.
run_judge(id, body, clientOk, writeOk, co, ro, send1, send2) ==
    LET k == JudgeCore(body.language, body.expected_output, body.input,
                       writeOk, co, ro)
        m == JudgeMessage(id, body.callback_url, k.status, k.output)
        first == SendResult(send1, m)
        second == SendResult(send2, m)
    IN
    IF ~clientOk
    THEN [core |-> JudgeResult(None, <<>>, FALSE, None, <<>>),
          msgs |-> <<>>, events |-> <<"noClient">>]
    ELSE IF body.language \notin JudgeSupported
    THEN [core |-> k, msgs |-> first.msgs \o second.msgs,
          events |-> first.events \o second.events]
    ELSE IF k.early
    THEN [core |-> k, msgs |-> first.msgs \o second.msgs,
          events |-> <<"mkdtemp">> \o SpawnEvents(k.spawns) \o first.events
                        \o <<"cleanup">> \o second.events]
    ELSE [core |-> k, msgs |-> first.msgs,
          events |-> <<"mkdtemp">> \o SpawnEvents(k.spawns) \o <<"cleanup">>
                        \o first.events]

JudgeCompileTried(body, writeOk) ==
    HasPhase(JudgeCore(body.language, body.expected_output, body.input,
                       writeOk, NoOutcome, NoOutcome).spawns, "compile")

JudgeRunTried(body, writeOk, co) ==
    HasPhase(JudgeCore(body.language, body.expected_output, body.input,
                       writeOk, co, NoOutcome).spawns, "run")

JudgeCompileChoices(body, writeOk) ==
    IF JudgeCompileTried(body, writeOk)
    THEN Faults(CompileOutcomes) \cup {program.co} ELSE {NoOutcome}

JudgeRunChoices(body, writeOk, co) ==
    IF JudgeRunTried(body, writeOk, co)
    THEN Faults(RunOutcomes) \cup {program.ro} ELSE {NoOutcome}

\* whether a second call of send_result can happen on this path
SecondSendChoices(body, writeOk, co, ro) ==
    IF JudgeCore(body.language, body.expected_output, body.input,
                 writeOk, co, ro).early
    THEN BOOLEAN ELSE {TRUE}

\* one judge container runs from start to exit
RunJudge(id, body, clientOk, writeOk, co, ro, send1, send2) ==
    /\ deployment = "ecs"
    /\ tasks[id] > 0
    /\ tasks' = [tasks EXCEPT ![id] = @ - 1]
    /\ payload' = body
    /\ LET r == run_judge(id, body, clientOk, writeOk, co, ro, send1, send2) IN
       /\ verdict' = r.core.status
       /\ output' = r.core.output
       /\ obs' = [provisional |-> r.core.provisional, spawns |-> r.core.spawns]
       /\ trace' = r.events
       /\ published' = r.msgs
    /\ delivered' = <<>>
    /\ callback' = NoCallback
    /\ UNCHANGED <<other, deployment, message, program, store, queued, opCount>>
    /\ UNCHANGED workerVars

\* -------------------------------------------------- callback-lambda/app.py
\* the records of the batch before the one whose update_item raises
Handled(batch, failAt) == SubSeq(batch, 1, failAt - 1)

RECURSIVE CallbackStore(_, _)
CallbackStore(st, msgs) ==
    IF msgs = <<>> THEN st
    ELSE CallbackStore(
             [st EXCEPT ![Head(msgs).submissionId] =
                 [status |-> Head(msgs).status, result |-> Head(msgs).output]],
             Tail(msgs))

\* if result.get('callbackUrl'): requests.post(...)
CallbackPosts(msgs) ==
    SelectSeq(msgs, LAMBDA m : m.callbackUrl # <<>>)

\* for each record: update_item(status, output), then the callback post; the
\* update of record failAt raises (failAt beyond the batch: none does)
CallbackLambda(batch, failAt) ==
    /\ deployment = "ecs"
    /\ store' = CallbackStore(store, Handled(batch, failAt))
    /\ delivered' = CallbackPosts(Handled(batch, failAt))
    /\ callback' = [size |-> Len(batch), handled |-> failAt - 1,
                    cause |-> IF failAt <= Len(batch) THEN "store" ELSE "none"]
    /\ UNCHANGED <<other, deployment, message, program, queued, payload, verdict, output, obs, trace,
                   opCount, published, tasks>>
    /\ UNCHANGED workerVars

\* --------------------------------------- infrastructure/callback/callback.py
\* the record of the batch at which the handler raises: the first one without
\* a callback target, for which urllib.request.Request raises, or the one
\* whose urlopen raises (postFailAt); beyond the batch when none does
CallbackStop(batch, postFailAt) ==
    LET stops == {k \in 1..Len(batch) :
                     batch[k].callback_url = <<>> \/ k = postFailAt}
    IN IF stops = {} THEN Len(batch) + 1
       ELSE CHOOSE k \in stops : \A j \in stops : k <= j

\* for each record: webhook_url = payload.get('callback_url'), then Request
\* and urlopen inside try; except Exception: print and raise e (lines 21-23)
CallbackHandler(batch, postFailAt) ==
    /\ deployment = "serverless"
    /\ LET k == CallbackStop(batch, postFailAt) IN
       /\ delivered' = SubSeq(batch, 1, k - 1)
       /\ callback' = [size |-> Len(batch), handled |-> k - 1,
                       cause |-> IF k > Len(batch) THEN "none"
                                 ELSE IF batch[k].callback_url = <<>>
                                 THEN "target" ELSE "post"]
    /\ UNCHANGED <<other, deployment, message, program, store, queued, payload,
                   verdict, output, obs, trace, opCount, published, tasks>>
    /\ UNCHANGED workerVars

\* the result queue hands over the messages of the latest judge operation, any
\* of them any number of times
ResultBatches ==
    UNION { [1..n -> {published[i] : i \in 1..Len(published)}] : n \in 1..MaxBatch }

\* -------------------------------------------------------- initial states
\* the run outcomes tried with a program that also leaves files behind that
\* shutil.rmtree cannot remove: a success and a timeout.  tempfile's
\* TemporaryDirectory resets permissions before it removes: not tried there.
LitterOutcomes ==
    {o \in RunOutcomes \ Faults(RunOutcomes) :
        \/ o.rc = 0 /\ o.out = <<"a", "\n">>
        \/ o.dur > 2}

\* the programs that are submitted: one per outcome of the compile and of the
\* run process that deployment d starts for the body
Programs(d, body) ==
    LET compiled == IF d = "ecs" THEN JudgeCompileTried(body, TRUE)
                    ELSE CompileTried(body, TRUE)
        cs == IF compiled THEN CompileOutcomes \ Faults(CompileOutcomes)
              ELSE {NoOutcome}
        run(c) == IF d = "ecs" THEN JudgeRunTried(body, TRUE, c)
                  ELSE RunTried(body, TRUE, c)
        rs(c) == IF run(c) THEN RunOutcomes \ Faults(RunOutcomes)
                 ELSE {NoOutcome}
        ls(r) == IF d = "serverless" /\ r \in LitterOutcomes THEN BOOLEAN
                 ELSE {FALSE}
    IN UNION { UNION { {[co |-> c, ro |-> r, litter |-> l] : l \in ls(r)} :
                          r \in rs(c) } : c \in cs }

\* nothing is submitted, the worker is idle, no task is started
Start ==
    /\ store = [i \in SubIds |-> [status |-> "NONE", result |-> <<>>]]
    /\ queued = [i \in SubIds |-> FALSE]
    /\ pc = "idle"
    /\ records = <<>>
    /\ payload = NoBody
    /\ workDir = 0
    /\ verdict = None
    /\ output = <<>>
    /\ obs = NoObs
    /\ trace = <<>>
    /\ workspaces = {}
    /\ opCount = 0
    /\ runIds = <<>>
    /\ published = <<>>
    /\ tasks = [i \in SubIds |-> 0]
    /\ delivered = <<>>
    /\ callback = NoCallback
    /\ other = OtherIdle

Init ==
    /\ deployment \in {"serverless", "ecs"}
    /\ message \in IF deployment = "ecs" THEN EcsBodies ELSE Bodies
    /\ program \in Programs(deployment, message)
    /\ Start

\* the choices of an action are enumerated only where its guard can hold
Next ==
    \/ \E id \in SubIds, sendOk \in BOOLEAN : Submit(id, sendOk)
    \/ /\ deployment = "serverless" /\ pc = "idle"
       /\ \E batch \in Batches : Receive(batch)
    \/ Parse(message)
    \/ \E ok \in BOOLEAN : WriteProcessing(ok)
    \/ MakeWorkspace
    \/ /\ pc = "execute"
       /\ \E writeOk \in BOOLEAN :
             \E co \in CompileChoices(payload, writeOk) :
                \E ro \in RunChoices(payload, writeOk, co) :
                   Execute(writeOk, co, ro)
    \/ \E ok \in BOOLEAN : Publish(ok)
    \/ \E ok \in BOOLEAN : WriteFinal(ok)
    \/ /\ deployment = "ecs"
       /\ \E batch \in Batches : DispatcherHandler(batch)
    \/ /\ deployment = "ecs"
       /\ \E id \in {i \in SubIds : tasks[i] > 0} :
             \/ RunJudge(id, message, FALSE, TRUE, NoOutcome, NoOutcome, TRUE, TRUE)
             \/ \E writeOk, send1 \in BOOLEAN :
                   \E co \in JudgeCompileChoices(message, writeOk) :
                      \E ro \in JudgeRunChoices(message, writeOk, co) :
                         \E send2 \in SecondSendChoices(message, writeOk, co, ro) :
                            RunJudge(id, message, TRUE, writeOk, co, ro, send1, send2)
    \/ /\ deployment = "ecs"
       /\ \E batch \in ResultBatches :
             \E failAt \in 1..(Len(batch) + 1) : CallbackLambda(batch, failAt)

Spec == Init /\ [][Next]_vars

\* ----------------------------------------------- two overlapping workers
\* the submissions tried with two instances: a python program that prints the
\* expected text or another one; the instances differ in the faults they meet
OverlapPrograms ==
    {p \in Programs("serverless", Body(Python, <<"a">>, Url)) :
        /\ p.ro.rc = 0
        /\ p.ro.out \in {<<"a", "\n">>, <<"b">>}}

InitOverlap ==
    /\ Init
    /\ deployment = "serverless"
    /\ message = Body(Python, <<"a">>, Url)
    /\ program \in OverlapPrograms

NextOverlap ==
    \/ \E id \in SubIds, sendOk \in BOOLEAN : Submit(id, sendOk)
    \/ /\ pc = "idle"
       /\ \E batch \in Batches : Receive(batch)
    \/ Parse(message)
    \/ \E ok \in BOOLEAN : WriteProcessing(ok)
    \/ MakeWorkspace
    \/ /\ pc = "execute"
       /\ \E writeOk \in BOOLEAN :
             \E co \in CompileChoices(payload, writeOk) :
                \E ro \in RunChoices(payload, writeOk, co) :
                   Execute(writeOk, co, ro)
    \/ \E ok \in BOOLEAN : Publish(ok)
    \/ \E ok \in BOOLEAN : WriteFinal(ok)
    \/ \E id \in SubIds : OtherReceive(id)
    \/ \E ok \in BOOLEAN : OtherWriteProcessing(ok)
    \/ /\ other.pc = "judge"
       /\ \E writeOk, pubOk \in BOOLEAN :
             \E co \in CompileChoices(message, writeOk) :
                \E ro \in RunChoices(message, writeOk, co) :
                   OtherJudge(writeOk, co, ro, pubOk)
    \/ \E ok \in BOOLEAN : OtherWriteFinal(ok)

SpecOverlap == InitOverlap /\ [][NextOverlap]_vars

\* ------------------------------------------- managed-runtime memory limits
\* int(payload.get('memoryLimit', 256)) accepts any number: the limits tried
\* are below, at and above the floor of the heap budget, and the default
MemoryLimits ==
    {1, MinHeap - 1, MinHeap, MinHeap + 1, MinHeap + HeapReserve, 256}

\* java and javascript submissions with these limits
HeapBodies ==
    { [Body(l, <<"a">>, Url) EXCEPT !.memoryLimit = m] :
         l \in {Java, Javascript}, m \in MemoryLimits }

InitHeap ==
    /\ deployment = "serverless"
    /\ message \in HeapBodies
    /\ program \in {p \in Programs("serverless", message) :
                       p.co.rc = 0 /\ p.ro.rc = 0 /\ ~p.litter}
    /\ Start

\* the worker alone
NextWorker ==
    \/ \E id \in SubIds, sendOk \in BOOLEAN : Submit(id, sendOk)
    \/ /\ pc = "idle"
       /\ \E batch \in Batches : Receive(batch)
    \/ Parse(message)
    \/ \E ok \in BOOLEAN : WriteProcessing(ok)
    \/ MakeWorkspace
    \/ /\ pc = "execute"
       /\ \E writeOk \in BOOLEAN :
             \E co \in CompileChoices(payload, writeOk) :
                \E ro \in RunChoices(payload, writeOk, co) :
                   Execute(writeOk, co, ro)
    \/ \E ok \in BOOLEAN : Publish(ok)
    \/ \E ok \in BOOLEAN : WriteFinal(ok)

SpecHeap == InitHeap /\ [][NextWorker]_vars

\* ------------------------------------------------- the callback handlers
\* submissions with and without a callback target, whose programs print the
\* expected text
CallbackBodies ==
    { Body(l, <<"a">>, cb) : l \in {Python, Py, Rb}, cb \in {Url, <<>>} }

InitCallback ==
    /\ deployment \in {"serverless", "ecs"}
    /\ message \in CallbackBodies
    /\ program \in {p \in Programs(deployment, message) :
                       /\ p.ro.rc = 0
                       /\ p.ro.out \in {<<>>, <<"a", "\n">>}
                       /\ ~p.litter}
    /\ Start

NextCallback ==
    \/ Next
    \/ /\ deployment = "serverless"
       /\ \E batch \in ResultBatches :
             \E postFailAt \in 1..(Len(batch) + 1) :
                CallbackHandler(batch, postFailAt)

SpecCallback == InitCallback /\ [][NextCallback]_vars

\* ================================================================ claims
WorkerLanguages == {Cpp, Python, Java, Javascript, Go}

\* a judge operation has computed its verdict: verdict, output, obs and
\* payload belong to the same submission
Judged == obs.provisional # None

\* the judge operation is over (worker: the terminal write was made; judge
\* container: it exited) and no call to the Result Sink or the Status Store
\* failed in it
Completed ==
    /\ trace # <<>>
    /\ \A i \in 1..Len(trace) : trace[i] \notin {"publishFailed", "noClient"}
    /\ deployment = "serverless" => trace[Len(trace)] = "setFinal"

\* C1 (as claimed): every judge operation that completes has published exactly
\* one result message to the Result Sink, on every path through it.
ExactlyOneResult == Completed => Len(published) = 1

StatusChanged(id) == store'[id].status # store[id].status

\* C2 (as claimed): the status of an id only ever moves PENDING -> PROCESSING
\* -> terminal verdict.
StatusFollowsStateMachine ==
    [][\A id \in SubIds : StatusChanged(id) =>
          \/ store[id].status = "NONE" /\ store'[id].status = "PENDING"
          \/ store[id].status = "PENDING" /\ store'[id].status = "PROCESSING"
          \/ store[id].status = "PROCESSING" /\ store'[id].status \in Terminal]_vars

\* C3: in the worker the PROCESSING write precedes the creation of the
\* workspace and every spawn of the operation; the terminal write sets the
\* verdict and the truncated output in one write, directly after the
\* publication, and nothing of the operation follows it.
ProcessingFirstFinalLast ==
    /\ [](deployment = "serverless" =>
            /\ \A i \in 1..Len(trace) :
                  trace[i] \in {"mkdir", "compile", "run"} =>
                     \E j \in 1..(i - 1) : trace[j] = "setStatus"
            /\ \A i \in 1..Len(trace) :
                  trace[i] = "setFinal" =>
                     i = Len(trace) /\ i > 1 /\ trace[i - 1] = "publish")
    /\ [][\A id \in SubIds :
            (/\ deployment = "serverless"
             /\ store'[id] # store[id]
             /\ store'[id].status \in Terminal) =>
                /\ store'[id] = [status |-> verdict, result |-> Truncate(output)]
                /\ published # <<>>
                /\ published[Len(published)].verdict = verdict
                /\ published[Len(published)].output = store'[id].result
                /\ pc' \in {"idle", HandlerSteps[1]}]_vars

\* C3 witness: an operation that compiled and ran has made its terminal write
FullOperationDone ==
    /\ deployment = "serverless"
    /\ trace = <<"setStatus", "mkdir", "compile", "run", "rmtree", "publish",
                 "setFinal">>

\* ------------------------------------------------ observations of a judge
\* operation, read from the spawns it made
CompileSpawns == {obs.spawns[i] : i \in {k \in 1..Len(obs.spawns) : obs.spawns[k].phase = "compile"}}
RunSpawns == {obs.spawns[i] : i \in {k \in 1..Len(obs.spawns) : obs.spawns[k].phase = "run"}}

\* the child ended by itself, within the timeout it was started with
Exited(sp) == sp.outcome.fault = "none" /\ sp.outcome.dur <= sp.timeout
TimedOut(sp) == sp.outcome.fault = "none" /\ sp.outcome.dur > sp.timeout

\* the streams the engine reads of this child are valid UTF-8
Readable(sp) == Decodable(sp.outcome.out) /\ Decodable(sp.outcome.err)

AllWhitespace(s) == \A i \in 1..Len(s) : s[i] \in Whitespace

\* s without its leading and trailing whitespace, and nothing else removed
Trimmed(s) ==
    IF AllWhitespace(s) THEN <<>>
    ELSE LET first == CHOOSE i \in 1..Len(s) :
                         s[i] \notin Whitespace /\ AllWhitespace(SubSeq(s, 1, i - 1))
             last == CHOOSE j \in 1..Len(s) :
                        /\ s[j] \notin Whitespace
                        /\ (j < Len(s) => s[j + 1] \in Whitespace)
                        /\ AllWhitespace(SubSeq(s, j + 1, Len(s)))
         IN SubSeq(s, first, last)

Contains(s, sub) ==
    \E i \in 0..(Len(s) - Len(sub)) : SubSeq(s, i + 1, i + Len(sub)) = sub

CompileTimeoutGivesCE ==
    Judged =>
       \A sp \in CompileSpawns :
          TimedOut(sp) =>
             /\ verdict = "CE"
             /\ output = CompilationTimeout
             /\ RunSpawns = {}

\* C6 (as claimed): the run outcome decides the verdict as in the table: exit
\* code 0 is a provisional AC, SIGKILL, SIGSEGV or an allocation failure is
\* MLE with the fixed diagnostic, a timeout is TLE with the fixed diagnostic
\* whatever was printed, any other exit code is RE.  (Output that is not valid
\* UTF-8 and a failure to start the process are left aside: they are internal
\* faults.)
RunClassification ==
    Judged =>
       \A sp \in RunSpawns :
          LET o == sp.outcome IN
          /\ o.fault = "MemoryError" =>
                verdict = "MLE" /\ output = MemoryLimitExceeded
          /\ TimedOut(sp) =>
                /\ verdict = "TLE"
                /\ output \in {TimeLimitExceeded, JudgeTimeLimitExceeded}
          /\ (Exited(sp) /\ Readable(sp)) =>
                /\ o.rc = 0 => obs.provisional = "AC" /\ verdict \in {"AC", "WA"}
                /\ o.rc \in {-9, -11} =>
                      verdict = "MLE" /\ output = MemoryLimitExceeded
                /\ o.rc \notin {0, -9, -11} => verdict = "RE"

\* C7 (as claimed): a run that exits non-zero for a reason other than memory
\* gives RE whose output is the captured stderr, or a fixed message when the
\* stderr is empty: it is never empty.
RuntimeErrorOutputNonEmpty ==
    Judged =>
       \A sp \in RunSpawns :
          (/\ Exited(sp) /\ Readable(sp)
           /\ sp.outcome.rc \notin {0, -9, -11}
           /\ ~sp.outcome.oom) =>
              /\ verdict = "RE"
              /\ output # <<>>
              /\ sp.outcome.err # <<>> =>
                    output \in {sp.outcome.err, Trimmed(sp.outcome.err)}

\* C8 (as claimed): a program that breaches the memory limit it runs under
\* gets MLE, however the breach shows in the child.
MemoryBreachGivesMLE ==
    Judged =>
       \A sp \in RunSpawns :
          (sp.rlimit > 0 /\ sp.outcome.oom /\ ~TimedOut(sp)) => verdict = "MLE"

Recognized == IF deployment = "serverless" THEN WorkerLanguages ELSE JudgeSupported

\* C9: a language identifier the engine does not know gives RE with a
\* diagnostic that contains the identifier, in the verdict and in every
\* published result, and no process is spawned.
UnsupportedLanguageGivesRE ==
    (Judged /\ payload.language \notin Recognized) =>
       /\ verdict = "RE"
       /\ Contains(output, payload.language)
       /\ obs.spawns = <<>>
       /\ \A i \in 1..Len(published) :
             /\ Contains(published[i].output, payload.language)
             /\ deployment = "serverless" => published[i].verdict = "RE"
             /\ deployment = "ecs" => published[i].status = "RE"

\* C9 witness: the worker has published the result of a "py" submission
PyRejectedByWorker ==
    /\ deployment = "serverless"
    /\ payload.language = Py
    /\ verdict = "RE"
    /\ published # <<>>

\* C10: the comparison decides the verdict exactly when the run gave a
\* provisional AC: AC if the captured stdout and the expected output are equal
\* once both are trimmed, WA otherwise; any other verdict of the build or run
\* phase stays as it is.
ComparisonOnlyOnAC ==
    Judged =>
       IF obs.provisional = "AC"
       THEN \A sp \in RunSpawns :
               verdict = IF Trimmed(sp.outcome.out) = Trimmed(payload.expected_output)
                         THEN "AC" ELSE "WA"
       ELSE /\ obs.provisional \in {"RE", "CE", "TLE", "MLE"} =>
                  verdict = obs.provisional
            /\ verdict \notin {"AC", "WA"}

\* C10 witness: stdout "a\n" against expected "a" was judged AC, and stdout
\* "a\n" against expected " a\n" too
TrimmedOutputAccepted ==
    /\ deployment = "serverless"
    /\ obs.provisional = "AC"
    /\ verdict = "AC"
    /\ payload.expected_output = <<" ", "a", "\n">>
    /\ \E sp \in RunSpawns : sp.outcome.out = <<"a", "\n">>

\* C11 (as claimed): when the expected output of the submission is empty, a
\* run that exits 0 is judged AC whatever it printed.
EmptyExpectedGivesAC ==
    (Judged /\ payload.expected_output = <<>>) =>
       \A sp \in RunSpawns :
          (Exited(sp) /\ Readable(sp) /\ sp.outcome.rc = 0) => verdict = "AC"

\* C15 (as claimed): every process the engine spawns, compile steps as well as
\* run steps, is started with the allow-list environment and nothing else.
SpawnEnvAllowListed ==
    Judged => \A i \in 1..Len(obs.spawns) : obs.spawns[i].env = get_safe_env

\* C19 (as claimed): the run process is given the stdin text of its
\* submission as its standard input.
StdinSupplied ==
    Judged => \A sp \in RunSpawns : sp.piped /\ sp.stdin = payload.input

\* C17 (as claimed): a failure to publish the result does not leave the judge
\* operation: from the publish step the worker always goes on to the
\* terminal Status Store write of the submission.
PublishFailureHandled ==
    [][(deployment = "serverless" /\ pc = "publish") =>
          pc' \in {"publish", "final"}]_vars

\* the first n characters of s, all of s when it is shorter
FirstChars(s, n) == [i \in 1..(IF Len(s) < n THEN Len(s) ELSE n) |-> s[i]]

\* C12 (as claimed): the output of every emitted result and of the Status
\* Store is the first TruncateLen characters of the computed output, and the
\* AC/WA decision is the one of the untruncated output.
OutputTruncated ==
    /\ \A i \in 1..Len(published) :
          /\ Len(published[i].output) <= TruncateLen
          /\ Judged => published[i].output = FirstChars(output, TruncateLen)
    /\ \A id \in SubIds : Len(store[id].result) <= TruncateLen
    /\ Judged =>
          \A sp \in RunSpawns :
             (obs.provisional = "AC" /\ Len(sp.outcome.out) > TruncateLen) =>
                (verdict = "AC" <=>
                    Trimmed(sp.outcome.out) = Trimmed(payload.expected_output))

\* the positions of the trace where a workspace is created, where its removal
\* succeeds, and where a result is emitted
Created(i) == trace[i] \in {"mkdir", "mkdtemp"}
Removed(i) == trace[i] \in {"rmtree", "cleanup"}
Emitted(i) == trace[i] = "publish"

\* C13 (as claimed): on every exit path the workspace of the operation has
\* been removed by the time its result is emitted, and a removal that fails
\* leaves the verdict what the run and the comparison made it.
WorkspaceRemovedBeforeResult ==
    /\ \A i \in 1..Len(trace) :
          Emitted(i) =>
             \A j \in 1..(i - 1) :
                Created(j) => \E k \in (j + 1)..(i - 1) : Removed(k)
    /\ (Judged /\ \E i \in 1..Len(trace) : trace[i] = "rmtreeFailed") =>
          \/ obs.provisional = "AC" /\ verdict \in {"AC", "WA"}
          \/ obs.provisional = "raised" /\ verdict = "RE"
          \/ obs.provisional = verdict

\* C14: no two judge operations use the same workspace path, whether they
\* follow one another in one worker or overlap in two, and whether or not
\* they judge the same submission id: the identifiers generated for the
\* workspaces are all different, and two workspaces in use at the same time
\* differ.
NoSharedWorkspacePath ==
    /\ \A i, j \in 1..Len(runIds) : i # j => runIds[i] # runIds[j]
    /\ (workDir # 0 /\ other.workDir # 0) => workDir # other.workDir

\* C14 witness: the two instances are judging the same submission id at the
\* same time, each in a workspace of its own
SameIdJudgedConcurrently ==
    /\ pc = "execute"
    /\ other.pc = "final"
    /\ other.id = cur
    /\ Len(runIds) = 2

\* the terminal write of the first instance's completed operation, and the
\* terminal write of the second instance
MainWrite ==
    [status |-> published[Len(published)].verdict,
     result |-> published[Len(published)].output]

OtherWrite == [status |-> other.verdict, result |-> Truncate(other.output)]

\* both instances have completed a judge operation of submission id, and
\* neither is in another one
BothCompleted(id) ==
    /\ Completed
    /\ published # <<>>
    /\ published[Len(published)].submissionId = id
    /\ other.pc = "done"
    /\ other.id = id

\* C18: when the same submission id is judged twice, in sequence or by two
\* overlapping instances, each terminal write replaces whatever the Status
\* Store holds by the writer's verdict and truncated output, so that once
\* both operations have completed the store holds a terminal verdict, the one
\* of a terminal write, and not PROCESSING.
RejudgeLastWriteWins ==
    /\ [](\A id \in SubIds :
            BothCompleted(id) =>
               /\ store[id].status \in Terminal
               /\ store[id] \in {MainWrite, OtherWrite})
    /\ [][\A id \in SubIds :
            (other.pc = "final" /\ other'.pc = "done" /\ other.id = id) =>
               store'[id] = OtherWrite]_vars
    /\ [][(pc = "final" /\ trace' # trace) =>
            store'[cur] = [status |-> verdict, result |-> Truncate(output)]]_vars

\* C18 witness: both instances have judged submission 1 with different
\* verdicts, and the store holds the verdict of the second instance
OverlappedRejudgeDone ==
    /\ BothCompleted(1)
    /\ MainWrite.status # OtherWrite.status
    /\ store[1] = OtherWrite

\* str(e) of the exception that a judge operation with provisional verdict
\* "raised" met: the source file could not be written, or the last process
\* could not be started, overran a compile timeout, or wrote bytes that are
\* not text
RaisedText ==
    IF obs.spawns = <<>> THEN OSErrorText
    ELSE LET sp == obs.spawns[Len(obs.spawns)] IN
         IF sp.outcome.fault # "none" THEN FaultText(sp.outcome.fault)
         ELSE IF sp.outcome.dur > sp.timeout THEN TimeoutExpiredText
         ELSE UnicodeDecodeErrorText

\* the operation went on to emit its result: the worker is at, or past, its
\* send_message call; the judge task has called send_result
EmitReached ==
    IF deployment = "serverless"
    THEN pc \in {"publish", "final"} \/ published # <<>>
    ELSE \E i \in 1..Len(trace) : trace[i] \in {"publish", "publishFailed"}

\* C16 (as claimed): a fault raised while building, running or comparing
\* gives verdict RE with the fault's message as the output, and the result is
\* still emitted.
FaultGivesMessage ==
    (Judged /\ obs.provisional = "raised") =>
       verdict = "RE" /\ output = RaisedText /\ EmitReached

\* C16: a fault raised while building, running or comparing gives verdict RE
\* and the operation goes on to emit the result; the output is the fault's
\* message in the worker, and the fault's message after a prefix naming the
\* failed step in the judge task.
FaultGivesREWithMessage ==
    (Judged /\ obs.provisional = "raised") =>
       /\ verdict = "RE"
       /\ EmitReached
       /\ IF deployment = "serverless" THEN output = RaisedText
          ELSE \E p \in {SourceErrorPrefix, SetupErrorPrefix, ExecutionErrorPrefix} :
                  output = p \o RaisedText

\* C16 witness: the worker met a fault in a judge operation and has
\* published the result RE with the fault's message
FaultResultPublished ==
    /\ deployment = "serverless"
    /\ Judged
    /\ obs.provisional = "raised"
    /\ published # <<>>
    /\ published[Len(published)].verdict = "RE"
    /\ published[Len(published)].output = RaisedText
    /\ RaisedText # <<>>

\* the effects of one whole judge operation of the worker, in program order
FullLifecycle(t) ==
    /\ Len(t) >= 5
    /\ t[1] = "setStatus"
    /\ t[2] = "mkdir"
    /\ \A i \in 3..(Len(t) - 3) : t[i] \in {"compile", "run"}
    /\ t[Len(t) - 2] = "rmtree"
    /\ t[Len(t) - 1] = "publish"
    /\ t[Len(t)] = "setFinal"

\* C20 (as claimed): within one invocation the loop moves to the next record
\* only when every step of the current one is done, the removal of its
\* workspace included, so that at most one workspace exists at any time.
BatchSequential ==
    /\ [][(deployment = "serverless" /\ records # <<>>
           /\ records' = Tail(records) /\ records' # <<>>) =>
             FullLifecycle(trace')]_vars
    /\ [](deployment = "serverless" => Cardinality(workspaces) <= 1)

\* C21 (as claimed): a fault while one record is handled does not end the
\* invocation while records of the batch remain: the handler is left only
\* from the last record.
FaultDoesNotStopBatch ==
    [][(deployment = "serverless" /\ pc # "idle" /\ Len(records) > 1) =>
          pc' # "idle"]_vars

\* the run processes of the operation that were given a heap flag
HeapSpawns == {sp \in RunSpawns : sp.heap > 0}

\* C22 (as claimed): the heap budget on the command line of a java or
\* javascript process never exceeds the address-space ceiling set on that
\* process, whatever memory limit the submission carries.
HeapWithinCeiling ==
    Judged => \A sp \in HeapSpawns : sp.heap <= sp.rlimit

\* C22: a java or javascript process is started with both the heap flag and
\* the address-space ceiling, the ceiling being the memory limit of the
\* submission; the heap budget does not exceed the ceiling when the memory
\* limit is at least the floor of the budget, and is that floor, above the
\* ceiling, for every smaller limit.
HeapWithinCeilingAboveFloor ==
    (Judged /\ payload.language \in {Java, Javascript}) =>
       \A sp \in RunSpawns :
          /\ sp.heap > 0
          /\ sp.rlimit = payload.memoryLimit
          /\ payload.memoryLimit >= MinHeap => sp.heap <= sp.rlimit
          /\ payload.memoryLimit < MinHeap =>
                sp.heap = MinHeap /\ sp.heap > sp.rlimit

\* C22 witness: a java program has run under a memory limit equal to the floor
\* of the heap budget
JavaRunAtFloor ==
    /\ Judged
    /\ payload.language = Java
    /\ payload.memoryLimit = MinHeap
    /\ \E sp \in RunSpawns : sp.heap = MinHeap /\ sp.rlimit = MinHeap

\* the callback target a result message carries
Target(m) == IF deployment = "ecs" THEN m.callbackUrl ELSE m.callback_url

\* C23 (as claimed): for a result without callback target the callback
\* handlers attempt no delivery and do not raise, so the records after it are
\* handled as well.
AbsentTargetSkipped ==
    /\ \A i \in 1..Len(delivered) : Target(delivered[i]) # <<>>
    /\ callback.cause # "target"
    /\ callback.cause = "none" => callback.handled = callback.size

====
